---------------------------- MODULE Spec2Model ----------------------------
(***************************************************************************)
(* Quantum-Compute-Simulator: the single-qubit simulation engine           *)
(* (usecase/quantum_core_usecase.py) and the layer that drives it          *)
(* (usecase/simulations_usecase.py).                                       *)
(*                                                                         *)
(* Numbers.  The code computes in double precision.  The model computes in *)
(* exact integer fixed point:                                              *)
(*   - an input amplitude component x is the integer x * AScale;           *)
(*   - a gate matrix entry m is the integer m * GScale (1/sqrt(2) is       *)
(*     rounded to InvSqrt2 / GScale, as the code rounds it to a double);   *)
(*   - a post-gate amplitude, a shot record component and a noise value    *)
(*     are integers in units of 1 / Unit, Unit = AScale * GScale, so that  *)
(*     the matrix-vector product is exact; 0.00005 is NoiseMax units;      *)
(*   - a probability and a raw draw of the generator in [0,1) are integers *)
(*     in units of 1 / RawScale, RawScale = Unit * Unit, so that squares   *)
(*     of amplitudes are exact.                                            *)
(* A gate symbol is a sequence of one-character strings.                   *)
(***************************************************************************)
EXTENDS Integers, Sequences, FiniteSets, TLC

\* ------------------------------------------------------------------ bounds

\* Largest num_shots an engine call is given.
MaxShots == 2

\* ------------------------------------------------------- numeric resolution

\* Units per 1.0 of an input amplitude component.
AScale == 20

\* Units per 1.0 of a gate matrix entry.
GScale == 2000

\* 1/sqrt(2) in units of 1/GScale (line 28: 1 / np.sqrt(2)).
InvSqrt2 == 1414

\* 0.00005 in units of 1/Unit (lines 135, 188).
NoiseMax == 2

Unit == AScale * GScale

RawScale == Unit * Unit

\* ------------------------------------------------------------ complex numbers

Cx(re, im) == [re |-> re, im |-> im]

CAdd(a, b) == Cx(a.re + b.re, a.im + b.im)

CMul(a, b) == Cx(a.re * b.re - a.im * b.im, a.re * b.im + a.im * b.re)

\* gate @ state for a 2x2 matrix and a 2-vector.
MatVec_Transposed(gate, state) ==
    << CAdd(CMul(gate[1][1], state[1]), CMul(gate[2][1], state[2])),
       CAdd(CMul(gate[1][2], state[1]), CMul(gate[2][2], state[2])) >>

MatVec(gate, state) ==
    << CAdd(CMul(gate[1][1], state[1]), CMul(gate[1][2], state[2])),
       CAdd(CMul(gate[2][1], state[1]), CMul(gate[2][2], state[2])) >>

\* ------------------------------------------------------------- gate library

\* The keys of GATE_MATRICES in insertion order.
GateKeys == << <<"X">>, <<"Y">>, <<"Z">>, <<"H">>, <<"I">> >>

GATE_MATRICES ==
    ( <<"X">> :> << << Cx(0, 0), Cx(GScale, 0) >>,
                    << Cx(GScale, 0), Cx(0, 0) >> >> ) @@
    ( <<"Y">> :> << << Cx(0, 0), Cx(0, -GScale) >>,
                    << Cx(0, GScale), Cx(0, 0) >> >> ) @@
    ( <<"Z">> :> << << Cx(GScale, 0), Cx(0, 0) >>,
                    << Cx(0, 0), Cx(-GScale, 0) >> >> ) @@
    ( <<"H">> :> << << Cx(InvSqrt2, 0), Cx(InvSqrt2, 0) >>,
                    << Cx(InvSqrt2, 0), Cx(-InvSqrt2, 0) >> >> ) @@
    ( <<"I">> :> << << Cx(GScale, 0), Cx(0, 0) >>,
                    << Cx(0, 0), Cx(GScale, 0) >> >> )

SUPPORTED_GATES_NoIdentity == SubSeq(GateKeys, 1, 4)

\* list(GATE_MATRICES.keys())
SUPPORTED_GATES == GateKeys

\* The outcome of a call: a value returned, or an exception raised.
Returned(v) == [raised |-> "none", value |-> v]

Raised(e) == [raised |-> e]

get_gate_matrix_Default(gate_symbol) ==
    IF gate_symbol \notin DOMAIN GATE_MATRICES
    THEN Returned(GATE_MATRICES[<<"I">>])
    ELSE Returned(GATE_MATRICES[gate_symbol])

get_gate_matrix(gate_symbol) ==
    IF gate_symbol \notin DOMAIN GATE_MATRICES
    THEN Raised("ValueError")
    ELSE Returned(GATE_MATRICES[gate_symbol])

apply_gate(state, gate_symbol) ==
    LET gate == get_gate_matrix(gate_symbol)
    IN  IF gate.raised # "none"
        THEN gate
        ELSE Returned(MatVec(gate.value, state))

build_state_vector(alpha_real, alpha_imgn, beta_real, beta_imgn) ==
    << Cx(alpha_real, alpha_imgn), Cx(beta_real, beta_imgn) >>

is_supported_gate(gate_symbol) ==
    \E k \in 1..Len(SUPPORTED_GATES) : SUPPORTED_GATES[k] = gate_symbol

\* ------------------------------------------------------------ random draws

\* np.random.uniform(low, high) from one raw draw in [0,1) of the generator:
\* low + (high - low) * raw, in units of 1/Unit (rounded down).
uniform_Wide(low, high, raw) == 10 * (low + raw \div (RawScale \div (high - low)))

uniform(low, high, raw) == low + raw \div (RawScale \div (high - low))

\* abs(z) ** 2 in units of 1/RawScale.
AbsSquared(z) == z.re * z.re + z.im * z.im

\* ------------------------------------------------------------ one shot each

ShotRecord_Eigenvalue(ar, ai, br, bi, out) ==
    [alphaReal |-> ar, alphaImgn |-> ai, betaReal |-> br, betaImgn |-> bi,
     outputState |-> 1 - 2 * out]

\* Lines 145-151, 201-207: the dictionary appended for a shot.
ShotRecord(ar, ai, br, bi, out) ==
    [alphaReal |-> ar, alphaImgn |-> ai, betaReal |-> br, betaImgn |-> bi,
     outputState |-> out]

\* Lines 135-151: one iteration of generate_shots' loop.
GateShot_TwoNoises(final_alpha, final_beta, prob_zero, variation, u) ==
    ShotRecord(final_alpha.re + variation, final_alpha.im + variation,
               final_beta.re - variation, final_beta.im - variation,
               IF u < prob_zero THEN 0 ELSE 1)

GateShot_PerturbedProb(final_alpha, final_beta, prob_zero, variation, u) ==
    ShotRecord(final_alpha.re + variation, final_alpha.im + variation,
               final_beta.re + variation, final_beta.im + variation,
               IF u < (final_alpha.re + variation) * (final_alpha.re + variation)
                        + (final_alpha.im + variation) * (final_alpha.im + variation)
               THEN 0 ELSE 1)

GateShot_Inclusive(final_alpha, final_beta, prob_zero, variation, u) ==
    ShotRecord(final_alpha.re + variation, final_alpha.im + variation,
               final_beta.re + variation, final_beta.im + variation,
               IF u <= prob_zero THEN 0 ELSE 1)

GateShot(final_alpha, final_beta, prob_zero, variation, u) ==
    ShotRecord(final_alpha.re + variation, final_alpha.im + variation,
               final_beta.re + variation, final_beta.im + variation,
               IF u < prob_zero THEN 0 ELSE 1)

\* Line 196: the probability of |0> from the noisy amplitudes.
NoiseProbZero_Born(shot_alpha_real, shot_alpha_imgn, shot_beta_real, shot_beta_imgn) ==
    RawScale - (shot_beta_real * shot_beta_real + shot_beta_imgn * shot_beta_imgn)

NoiseProbZero(shot_alpha_real, shot_alpha_imgn, shot_beta_real, shot_beta_imgn) ==
    shot_alpha_real * shot_alpha_real + shot_alpha_imgn * shot_alpha_imgn

\* Lines 188-207: one iteration of generate_shots_random_noise's loop; the
\* inputs are brought to units of 1/Unit before the noise is added.
NoiseShot_Swapped(alpha_real, alpha_imgn, beta_real, beta_imgn, variation, u) ==
    LET shot_alpha_real == beta_real * GScale + variation
        shot_alpha_imgn == beta_imgn * GScale + variation
        shot_beta_real  == alpha_real * GScale + variation
        shot_beta_imgn  == alpha_imgn * GScale + variation
    IN  ShotRecord(shot_alpha_real, shot_alpha_imgn, shot_beta_real, shot_beta_imgn,
                   IF u < shot_alpha_real * shot_alpha_real
                            + shot_alpha_imgn * shot_alpha_imgn
                   THEN 0 ELSE 1)

NoiseShot_Unperturbed(alpha_real, alpha_imgn, beta_real, beta_imgn, variation, u) ==
    ShotRecord(alpha_real * GScale + variation, alpha_imgn * GScale + variation,
               beta_real * GScale + variation, beta_imgn * GScale + variation,
               IF u < NoiseProbZero(alpha_real * GScale, alpha_imgn * GScale,
                                    beta_real * GScale, beta_imgn * GScale)
               THEN 0 ELSE 1)

NoiseShot(alpha_real, alpha_imgn, beta_real, beta_imgn, variation, u) ==
    LET shot_alpha_real == alpha_real * GScale + variation
        shot_alpha_imgn == alpha_imgn * GScale + variation
        shot_beta_real  == beta_real * GScale + variation
        shot_beta_imgn  == beta_imgn * GScale + variation
        prob == NoiseProbZero(shot_alpha_real, shot_alpha_imgn,
                              shot_beta_real, shot_beta_imgn)
    IN  ShotRecord(shot_alpha_real, shot_alpha_imgn, shot_beta_real, shot_beta_imgn,
                   IF u < prob THEN 0 ELSE 1)

\* range(num_shots): whether iteration i (0-based) runs.
InRange_OffByOne(i, num_shots) == i < num_shots - 1

InRange(i, num_shots) == i < num_shots

\* ------------------------------------------------------------ a whole call
\* generate_shots (lines 89-154) from entry to return; rng is the sequence of
\* raw draws the generator yields to the call, in order.
generate_shots(alpha_real, alpha_imgn, beta_real, beta_imgn, gate_symbol, num_shots, rng) ==
    LET initial_state == build_state_vector(alpha_real, alpha_imgn, beta_real, beta_imgn)
        applied == apply_gate(initial_state, gate_symbol)
    IN  IF applied.raised # "none"
        THEN applied
        ELSE LET final_alpha == applied.value[1]
                 final_beta == applied.value[2]
                 prob == AbsSquared(final_alpha)
             IN  Returned([k \in 1..num_shots |->
                             GateShot(final_alpha, final_beta, prob,
                                      uniform(-NoiseMax, NoiseMax, rng[2 * k - 1]),
                                      rng[2 * k])])

\* generate_shots_random_noise (lines 157-210) from entry to return.
generate_shots_random_noise(alpha_real, alpha_imgn, beta_real, beta_imgn, num_shots, rng) ==
    Returned([k \in 1..num_shots |->
                NoiseShot(alpha_real, alpha_imgn, beta_real, beta_imgn,
                          uniform(-NoiseMax, NoiseMax, rng[2 * k - 1]), rng[2 * k])])

\* ------------------------------------------------- the process's generator
\* np.random's functions draw from one generator of the process (lines 135,
\* 143, 188, 199).  Its state is abstracted to a linear congruential
\* generator of RngModulus states; a raw draw is the state, scaled to
\* [0, RawScale).
RngModulus == 16

rng_next(x) == (5 * x + 3) % RngModulus

RngRaw(x) == x * (RawScale \div RngModulus)

RECURSIVE RngAfter(_, _)
\* The generator's state k draws after state x.
RngAfter(x, k) == IF k <= 0 THEN x ELSE RngAfter(rng_next(x), k - 1)

\* The raw draws a call gets that finds the generator in state x and is the
\* only one to draw from it.
RngStream(x, len) == [k \in 1..len |-> RngRaw(RngAfter(x, k - 1))]

\* ================================================================ one call
\* The engine called once: the arguments are drawn at Init, the call runs
\* to its return or to the exception it raises.

VARIABLES
    args,         \* the call: fn and its arguments
    pc,           \* "call" (not entered), "loop" (in the for loop), "done"
    final_state,  \* generate_shots: final_state (line 120)
    prob_zero,    \* prob_zero (line 128; line 196, per shot)
    i,            \* the loop counter of range(num_shots)
    shots,        \* the list shots (lines 132, 185)
    draws,        \* history: the two draws of each iteration, in order
    outcome,      \* what the call returned or raised
    \* --- two concurrent calls (SpecConc)
    calls,        \* per thread: the call it runs and the call's locals
    rng_seed,     \* history: the generator's state before either call drew
    rng_state,    \* the state of the process's generator
    \* --- the simulations layer (SpecOrch)
    states_tbl,      \* table States: the stateIDs that have a row
    simulations,     \* table Simulations: simID -> (stateID, gateID), or deleted
    shots_tbl,       \* table Shots: simID -> the rows inserted for it, in order
    progress_store,  \* SimulationsUsecase._progress_store: simID -> entry
    daily_count,     \* the day's counter file "simulations"
    tasks,           \* background tasks: simID -> the locals of its run
    called,          \* history: simID -> the engine functions its run called
    response,        \* the answer to the latest POST /simulations
    polled,          \* the answer to the latest GET /simulations/{id}/progress
    \* --- the states page (SpecStates)
    form,            \* the request: StatesUsecase.add or .edit and its data
    form_pc,         \* "call" (not entered), "done"
    sp_calls,        \* history: the stored procedures called, with parameters
    form_response,   \* what the usecase returned
    \* --- concurrent requests to POST /simulations (SpecGuard)
    posts,           \* per request: where its handler is, its body, its answer
    \* --- a usecase operation called by a route (SpecBoundary)
    op_call,         \* the operation and whether its input passes validation
    op_done,         \* the database calls (_execute) that have returned
    op_raised,       \* history: what a database call raised, or "none"
    op_result        \* what the operation returned to the route, or raised

engineVars == << args, pc, final_state, prob_zero, i, shots, draws, outcome >>

concVars == << calls, rng_seed, rng_state >>

orchVars ==
    << states_tbl, simulations, shots_tbl, progress_store, daily_count, tasks, called,
       response, polled >>

formVars == << form, form_pc, sp_calls, form_response >>

guardVars == << posts >>

boundaryVars == << op_call, op_done, op_raised, op_result >>

Pending == [raised |-> "pending"]

\* Input states (alpha_real, alpha_imgn, beta_real, beta_imgn) in units of
\* 1/AScale: |0>, |1>, 0.6|0>+0.8|1>, 0.6|0>+0.8i|1>, 0.6i|0>-0.8|1>,
\* 0.7|0>+0.7|1>.
StateInputs ==
    { << AScale, 0, 0, 0 >>, << 0, 0, AScale, 0 >>, << 12, 0, 16, 0 >>,
      << 12, 0, 0, 16 >>, << 0, 12, -16, 0 >>, << 14, 0, 14, 0 >> }

UnsupportedSymbols == { <<"Q">>, << >>, <<"X", "Y">> }

Symbols == { GateKeys[k] : k \in 1..Len(GateKeys) } \cup UnsupportedSymbols

ShotCounts == -1 .. MaxShots

MkArgs(fn, s, g, n) ==
    [fn |-> fn, alpha_real |-> s[1], alpha_imgn |-> s[2], beta_real |-> s[3],
     beta_imgn |-> s[4], gate_symbol |-> g, num_shots |-> n]

EngineCalls ==
    { MkArgs("apply_gate", s, g, 0) : s \in StateInputs, g \in Symbols } \cup
    { MkArgs("is_supported_gate", << 0, 0, 0, 0 >>, g, 0) : g \in Symbols } \cup
    { MkArgs("generate_shots", sn[1], g, sn[2]) :
        sn \in StateInputs \X ShotCounts, g \in Symbols } \cup
    { MkArgs("generate_shots_random_noise", s, << >>, n) :
        s \in StateInputs, n \in ShotCounts }

\* Raw draws of the generator, in units of 1/RawScale, that the two draws of
\* an iteration are taken from: noise raws give -NoiseMax, -1, 0, 1; outcome
\* raws lie on both sides of the probabilities that occur (0.36 at
\* 576000000, and the few units a perturbed zero amplitude has).
NoiseRaws == { 0, RawScale \div 4, RawScale \div 2, RawScale - 1 }

OutcomeRaws == { 0, 7, 12 * GScale * 12 * GScale - 1, 12 * GScale * 12 * GScale, RawScale - 1 }

InitEngine ==
    /\ args \in EngineCalls
    /\ pc = "call"
    /\ final_state = build_state_vector(0, 0, 0, 0)
    /\ prob_zero = 0
    /\ i = 0
    /\ shots = << >>
    /\ draws = << >>
    /\ outcome = Pending

\* apply_gate (lines 54-66) on the state built from the four components.
ApplyGateCall ==
    /\ pc = "call" /\ args.fn = "apply_gate"
    /\ outcome' = apply_gate(build_state_vector(args.alpha_real, args.alpha_imgn,
                                                 args.beta_real, args.beta_imgn),
                              args.gate_symbol)
    /\ pc' = "done"
    /\ UNCHANGED << args, final_state, prob_zero, i, shots, draws >>
    /\ UNCHANGED << concVars, orchVars, formVars, guardVars, boundaryVars >>

\* is_supported_gate (lines 213-223).
IsSupportedGateCall ==
    /\ pc = "call" /\ args.fn = "is_supported_gate"
    /\ outcome' = Returned(is_supported_gate(args.gate_symbol))
    /\ pc' = "done"
    /\ UNCHANGED << args, final_state, prob_zero, i, shots, draws >>
    /\ UNCHANGED << concVars, orchVars, formVars, guardVars, boundaryVars >>

\* generate_shots, lines 113-132: the gate is applied, prob_zero computed
\* and the list created; the exception of apply_gate propagates.
GenerateShotsEnter ==
    /\ pc = "call" /\ args.fn = "generate_shots"
    /\ LET initial_state == build_state_vector(args.alpha_real, args.alpha_imgn,
                                                args.beta_real, args.beta_imgn)
           applied == apply_gate(initial_state, args.gate_symbol)
       IN  IF applied.raised # "none"
           THEN /\ outcome' = applied
                /\ pc' = "done"
                /\ UNCHANGED << final_state, prob_zero, i, shots >>
           ELSE /\ final_state' = applied.value
                /\ prob_zero' = AbsSquared(applied.value[1])
                /\ shots' = << >>
                /\ i' = 0
                /\ pc' = "loop"
                /\ UNCHANGED outcome
    /\ UNCHANGED << args, draws >>
    /\ UNCHANGED << concVars, orchVars, formVars, guardVars, boundaryVars >>

\* generate_shots, lines 133-151: one iteration of the loop.
GenerateShotsIter ==
    /\ pc = "loop" /\ args.fn = "generate_shots"
    /\ InRange(i, args.num_shots)
    /\ \E rn \in NoiseRaws, u \in OutcomeRaws :
          LET variation == uniform(-NoiseMax, NoiseMax, rn)
          IN  /\ shots' = Append(shots, GateShot(final_state[1], final_state[2],
                                                  prob_zero, variation, u))
              /\ draws' = Append(draws, [variation |-> variation, u |-> u])
    /\ i' = i + 1
    /\ UNCHANGED << args, pc, final_state, prob_zero, outcome >>
    /\ UNCHANGED << concVars, orchVars, formVars, guardVars, boundaryVars >>

\* generate_shots, lines 153-154: the loop is over, the list is returned.
GenerateShotsReturn ==
    /\ pc = "loop" /\ args.fn = "generate_shots"
    /\ ~ InRange(i, args.num_shots)
    /\ outcome' = Returned(shots)
    /\ pc' = "done"
    /\ UNCHANGED << args, final_state, prob_zero, i, shots, draws >>
    /\ UNCHANGED << concVars, orchVars, formVars, guardVars, boundaryVars >>

\* generate_shots_random_noise, lines 182-185.
GenerateNoiseEnter ==
    /\ pc = "call" /\ args.fn = "generate_shots_random_noise"
    /\ shots' = << >>
    /\ i' = 0
    /\ pc' = "loop"
    /\ UNCHANGED << args, final_state, prob_zero, draws, outcome >>
    /\ UNCHANGED << concVars, orchVars, formVars, guardVars, boundaryVars >>

\* generate_shots_random_noise, lines 186-207: one iteration of the loop.
GenerateNoiseIter ==
    /\ pc = "loop" /\ args.fn = "generate_shots_random_noise"
    /\ InRange(i, args.num_shots)
    /\ \E rn \in NoiseRaws, u \in OutcomeRaws :
          LET variation == uniform(-NoiseMax, NoiseMax, rn)
              shot == NoiseShot(args.alpha_real, args.alpha_imgn, args.beta_real,
                                args.beta_imgn, variation, u)
          IN  /\ shots' = Append(shots, shot)
              /\ prob_zero' = NoiseProbZero(shot.alphaReal, shot.alphaImgn,
                                            shot.betaReal, shot.betaImgn)
              /\ draws' = Append(draws, [variation |-> variation, u |-> u])
    /\ i' = i + 1
    /\ UNCHANGED << args, pc, final_state, outcome >>
    /\ UNCHANGED << concVars, orchVars, formVars, guardVars, boundaryVars >>

\* generate_shots_random_noise, lines 209-210.
GenerateNoiseReturn ==
    /\ pc = "loop" /\ args.fn = "generate_shots_random_noise"
    /\ ~ InRange(i, args.num_shots)
    /\ outcome' = Returned(shots)
    /\ pc' = "done"
    /\ UNCHANGED << args, final_state, prob_zero, i, shots, draws >>
    /\ UNCHANGED << concVars, orchVars, formVars, guardVars, boundaryVars >>

NextEngine ==
    \/ ApplyGateCall
    \/ IsSupportedGateCall
    \/ GenerateShotsEnter
    \/ GenerateShotsIter
    \/ GenerateShotsReturn
    \/ GenerateNoiseEnter
    \/ GenerateNoiseIter
    \/ GenerateNoiseReturn

\* ====================================================== two concurrent calls
\* Two threads each run one generation call (the background tasks run in a
\* thread pool); every np.random call is one atomic step on the process's
\* generator, and a thread may be preempted between any two of them.

Threads == { 1, 2 }

\* Largest state the generator is seeded with.
MaxSeed == 1

ConcStates == { << 12, 0, 16, 0 >>, << 0, 12, -16, 0 >> }

ConcCalls ==
    { MkArgs("generate_shots", s, g, n) :
        s \in ConcStates, g \in { <<"I">>, <<"Q">> }, n \in 1..MaxShots } \cup
    { MkArgs("generate_shots_random_noise", s, << >>, n) :
        s \in ConcStates, n \in 1..MaxShots }

Locals(a) ==
    [args |-> a, pc |-> "call", final_state |-> build_state_vector(0, 0, 0, 0),
     prob_zero |-> 0, i |-> 0, variation |-> 0, shots |-> << >>, outcome |-> Pending]

InitConc ==
    /\ calls \in [Threads -> { Locals(a) : a \in ConcCalls }]
    /\ rng_seed \in 0..MaxSeed
    /\ rng_state = rng_seed

\* Lines 113-132 or 182-185: the call up to its loop.
ConcEnter(t) ==
    LET c == calls[t]
        applied == apply_gate(build_state_vector(c.args.alpha_real, c.args.alpha_imgn,
                                                 c.args.beta_real, c.args.beta_imgn),
                              c.args.gate_symbol)
    IN  /\ c.pc = "call"
        /\ calls' = [calls EXCEPT ![t] =
              IF c.args.fn = "generate_shots_random_noise"
              THEN [c EXCEPT !.pc = "loop"]
              ELSE IF applied.raised # "none"
              THEN [c EXCEPT !.pc = "done", !.outcome = applied]
              ELSE [c EXCEPT !.pc = "loop", !.final_state = applied.value,
                             !.prob_zero = AbsSquared(applied.value[1])]]
        /\ UNCHANGED << rng_seed, rng_state >>
        /\ UNCHANGED << engineVars, orchVars, formVars, guardVars, boundaryVars >>

\* Lines 135 or 188: np.random.uniform draws from the process's generator.
ConcDrawNoise_OwnSource(t) ==
    LET c == calls[t]
    IN  /\ c.pc = "loop"
        /\ InRange(c.i, c.args.num_shots)
        /\ calls' = [calls EXCEPT ![t] =
              [c EXCEPT !.pc = "outcome",
                        !.variation = uniform(-NoiseMax, NoiseMax, RngRaw(4 * t))]]
        /\ rng_state' = rng_next(rng_state)
        /\ UNCHANGED rng_seed
        /\ UNCHANGED << engineVars, orchVars, formVars, guardVars, boundaryVars >>

ConcDrawNoise(t) ==
    LET c == calls[t]
    IN  /\ c.pc = "loop"
        /\ InRange(c.i, c.args.num_shots)
        /\ calls' = [calls EXCEPT ![t] =
              [c EXCEPT !.pc = "outcome",
                        !.variation = uniform(-NoiseMax, NoiseMax, RngRaw(rng_state))]]
        /\ rng_state' = rng_next(rng_state)
        /\ UNCHANGED rng_seed
        /\ UNCHANGED << engineVars, orchVars, formVars, guardVars, boundaryVars >>

\* Lines 137-151 or 190-207: np.random.random draws from the process's
\* generator, and the record is appended.
ConcDrawOutcome(t) ==
    LET c == calls[t]
        u == RngRaw(rng_state)
        shot == IF c.args.fn = "generate_shots"
                THEN GateShot(c.final_state[1], c.final_state[2], c.prob_zero,
                              c.variation, u)
                ELSE NoiseShot(c.args.alpha_real, c.args.alpha_imgn, c.args.beta_real,
                               c.args.beta_imgn, c.variation, u)
    IN  /\ c.pc = "outcome"
        /\ calls' = [calls EXCEPT ![t] =
              [c EXCEPT !.pc = "loop", !.i = c.i + 1, !.shots = Append(c.shots, shot),
                        !.prob_zero = IF c.args.fn = "generate_shots"
                                      THEN c.prob_zero
                                      ELSE NoiseProbZero(shot.alphaReal, shot.alphaImgn,
                                                         shot.betaReal, shot.betaImgn)]]
        /\ rng_state' = rng_next(rng_state)
        /\ UNCHANGED rng_seed
        /\ UNCHANGED << engineVars, orchVars, formVars, guardVars, boundaryVars >>

\* Lines 153-154 or 209-210: the list is returned.
ConcReturn(t) ==
    LET c == calls[t]
    IN  /\ c.pc = "loop"
        /\ ~ InRange(c.i, c.args.num_shots)
        /\ calls' = [calls EXCEPT ![t] = [c EXCEPT !.pc = "done", !.outcome = Returned(c.shots)]]
        /\ UNCHANGED << rng_seed, rng_state >>
        /\ UNCHANGED << engineVars, orchVars, formVars, guardVars, boundaryVars >>

NextConc ==
    \E t \in Threads :
        \/ ConcEnter(t)
        \/ ConcDrawNoise(t)
        \/ ConcDrawOutcome(t)
        \/ ConcReturn(t)

\* ======================================================= one call, repeated
\* The same call made twice, one after the other, by a caller that seeds the
\* process's generator (np.random.seed) with the same value before each.

InitRepeat ==
    /\ \E a \in ConcCalls : calls = [t \in Threads |-> Locals(a)]
    /\ rng_seed \in 0..MaxSeed
    /\ rng_state = rng_seed

\* The caller seeds the generator again between the two calls.
SeedGenerator ==
    /\ calls[1].pc = "done" /\ calls[2].pc = "call"
    /\ rng_state # rng_seed
    /\ rng_state' = rng_seed
    /\ UNCHANGED << calls, rng_seed >>
    /\ UNCHANGED << engineVars, orchVars, formVars, guardVars, boundaryVars >>

\* The second call is entered when the first has returned and the generator
\* is seeded.
RepeatEnter(t) ==
    /\ t = 2 => (calls[1].pc = "done" /\ rng_state = rng_seed)
    /\ ConcEnter(t)

NextRepeat ==
    \/ SeedGenerator
    \/ \E t \in Threads :
          \/ RepeatEnter(t)
          \/ ConcDrawNoise(t)
          \/ ConcDrawOutcome(t)
          \/ ConcReturn(t)

\* ====================================================== the simulations layer
\* POST /simulations (main.py, post_simulations) and the background task it
\* schedules (SimulationsUsecase.generate_shots_background).  Every database
\* call (_execute) is a step of its own, and may raise.

\* Max simulations per day.
DAILY_QUERY_LIMIT == 500

\* numShots is accepted between these two.
MinNumShots == 5

MaxNumShots == 100

\* Simulations created in one behaviour.
MaxSims == 1

\* Largest numShots a request asks for, beyond MinNumShots.
ExtraShots == 0

\* Table Gates (read only): gateID -> symbol.  A standard gate wrapped and
\* bare, a custom gate, and a symbol with half a wrapper.
GateTable ==
    (1 :> <<"|", "X", "|">>) @@ (2 :> <<"|", "Q", "|">>) @@
    (3 :> <<"H">>) @@ (4 :> <<"X", "|">>)

\* Rows of table States: stateID -> symbol and amplitudes (in units of
\* 1/AScale); each is normalized, as StatesUsecase validates.
StateRows ==
    (1 :> [symbol |-> "|0>", alphaReal |-> AScale, alphaImgn |-> 0,
           betaReal |-> 0, betaImgn |-> 0]) @@
    (2 :> [symbol |-> "|s>", alphaReal |-> 12, alphaImgn |-> 0,
           betaReal |-> 0, betaImgn |-> 16])

\* A field of a request body: absent (None), a number, or a text that is
\* not a number.
None == [none |-> TRUE]

Num(n) == [num |-> n]

Text(t) == [text |-> t]

\* A float infinity (JSON 1e999 or Infinity).
Infinity == [inf |-> TRUE]

\* A request body that is a JSON array, not an object.
ArrayBody == [array |-> << >>]

Body(st, g, n) == [stateID |-> st, gateID |-> g, numShots |-> n]

\* Request bodies: valid ones, and ones with a field absent, not a number,
\* unknown to the database, or out of range.
Requests ==
    { Body(Num(st), Num(g), Num(n)) :
        st \in DOMAIN StateRows, g \in DOMAIN GateTable,
        n \in MinNumShots .. MinNumShots + ExtraShots } \cup
    { Body(None, Num(1), Num(MinNumShots)),
      Body(Num(0), Num(1), Num(MinNumShots)),
      Body(Num(1), Text("abc"), Num(MinNumShots)),
      Body(Num(1), Num(1), None),
      Body(Num(1), Num(1), Num(MinNumShots - 1)),
      Body(Num(1), Num(1), Num(MaxNumShots + 1)),
      Body(Num(9), Num(1), Num(MinNumShots)),
      Body(Num(1), Num(9), Num(MinNumShots)),
      Body(Infinity, Num(1), Num(MinNumShots)),
      Body(Num(1), Num(1), Infinity),
      ArrayBody }

\* int(v) succeeds.
IsNumber(v) == "num" \in DOMAIN v

\* The body is a JSON object (data.get exists).
IsObject(data) == "stateID" \in DOMAIN data

\* A field for which int(v) raises OverflowError: a float infinity.
IsInfinite(v) == "inf" \in DOMAIN v

\* _validate_simulation_data (lines 120-164): it returns whether the body
\* is accepted, or raises what its except clauses (ValueError, TypeError)
\* do not catch.  "not state_id" rejects an absent field and 0 alike.
validate_simulation_data(data) ==
    IF ~ IsObject(data) THEN Raised("AttributeError")
    ELSE IF data.stateID = None \/ data.stateID = Num(0) THEN Returned(FALSE)
    ELSE IF IsInfinite(data.stateID) THEN Raised("OverflowError")
    ELSE IF ~ IsNumber(data.stateID) THEN Returned(FALSE)
    ELSE IF data.gateID = None \/ data.gateID = Num(0) THEN Returned(FALSE)
    ELSE IF IsInfinite(data.gateID) THEN Raised("OverflowError")
    ELSE IF ~ IsNumber(data.gateID) THEN Returned(FALSE)
    ELSE IF data.numShots = None THEN Returned(FALSE)
    ELSE IF IsInfinite(data.numShots) THEN Raised("OverflowError")
    ELSE IF ~ IsNumber(data.numShots) THEN Returned(FALSE)
    ELSE IF data.numShots.num < MinNumShots \/ data.numShots.num > MaxNumShots
        THEN Returned(FALSE)
    ELSE Returned(TRUE)

\* _strip_symbol_wrapper (lines 186-193).
strip_symbol_wrapper_Identity(symbol) == symbol

strip_symbol_wrapper(symbol) ==
    IF symbol # << >> /\ symbol[1] = "|" /\ symbol[Len(symbol)] = "|"
    THEN SubSeq(symbol, 2, Len(symbol) - 1)
    ELSE symbol

\* _init_progress (lines 41-53): the entry a new simulation gets.
InitialProgress_Pending(total, state_symbol, gate_symbol) ==
    [current |-> 0, total |-> total, status |-> "pending",
     message |-> [text |-> "Applying", gate |-> gate_symbol, state |-> state_symbol],
     state_symbol |-> state_symbol, gate_symbol |-> gate_symbol]

InitialProgress(total, state_symbol, gate_symbol) ==
    [current |-> 0, total |-> total, status |-> "processing",
     message |-> [text |-> "Applying", gate |-> gate_symbol, state |-> state_symbol],
     state_symbol |-> state_symbol, gate_symbol |-> gate_symbol]

\* _update_progress (lines 55-61) as a new value of the store.
update_progress_Throttled(store, sim_id, current) ==
    IF sim_id \in DOMAIN store /\ current % 2 = 0
    THEN [store EXCEPT ![sim_id].current = current]
    ELSE store

update_progress_Ahead(store, sim_id, current) ==
    IF sim_id \in DOMAIN store
    THEN [store EXCEPT ![sim_id].current = current + 1]
    ELSE store

update_progress_ZeroBased(store, sim_id, current) ==
    IF sim_id \in DOMAIN store
    THEN [store EXCEPT ![sim_id].current = current - 1]
    ELSE store

update_progress(store, sim_id, current) ==
    IF sim_id \in DOMAIN store
    THEN [store EXCEPT ![sim_id].current = current]
    ELSE store

\* _complete_progress (lines 63-71).
complete_progress(store, sim_id) ==
    IF sim_id \in DOMAIN store
    THEN [store EXCEPT ![sim_id].status = "complete",
                       ![sim_id].current = store[sim_id].total,
                       ![sim_id].message = [text |-> "Complete"]]
    ELSE store

\* _error_progress (lines 73-80).
error_progress_MessageOnly(store, sim_id, error_msg) ==
    IF sim_id \in DOMAIN store
    THEN [store EXCEPT ![sim_id].message = error_msg]
    ELSE store

error_progress(store, sim_id, error_msg) ==
    IF sim_id \in DOMAIN store
    THEN [store EXCEPT ![sim_id].status = "error", ![sim_id].message = error_msg]
    ELSE store

\* The locals of a background run that has not started.
NewTask(data) ==
    [pc |-> "lookup_gate", data |-> data, gate_symbol_wrapped |-> << >>,
     gate_symbol |-> << >>, shots_data |-> << >>, i |-> 0]

InitOrch ==
    /\ states_tbl = DOMAIN StateRows
    /\ simulations = << >>
    /\ shots_tbl = << >>
    /\ progress_store = << >>
    /\ daily_count = DAILY_QUERY_LIMIT - MaxSims
    /\ tasks = << >>
    /\ called = << >>
    /\ response = [status_code |-> 0]
    /\ polled = [status_code |-> 0]

\* The _execute calls of add_async, in order; one of them may raise, and
\* the stored procedure sp_insert_simulation may answer a code other than
\* 201 (then the row's code is returned, here 409).
DbCalls == { "none", "gate lookup", "state lookup", "insert", "insert refused" }

\* add_async (lines 231-303): the status it answers when the database call
\* fails_at raises (db_error_handler turns the exception into 500).
add_async_status(data, fails_at) ==
    IF validate_simulation_data(data).raised # "none" THEN 500
    ELSE IF ~ validate_simulation_data(data).value THEN 400
    ELSE IF fails_at = "gate lookup" THEN 500
    ELSE IF data.gateID.num \notin DOMAIN GateTable THEN 404
    ELSE IF fails_at = "state lookup" THEN 500
    ELSE IF data.stateID.num \notin states_tbl THEN 404
    ELSE IF fails_at = "insert" THEN 500
    ELSE IF fails_at = "insert refused" THEN 409
    ELSE 202

\* What post_simulations does once add_async has answered (add_async lines
\* 282-303, main.py lines 275-286): with 202 the simulation row is there
\* and its progress entry initialized, the background task is scheduled and
\* the day's counter incremented; any other answer leaves everything as it
\* was.
AnswerRequest(data, status) ==
    LET sim_id == Len(simulations) + 1
    IN  /\ IF status = 202
           THEN /\ simulations' = Append(simulations, [stateID |-> data.stateID.num,
                                                        gateID |-> data.gateID.num,
                                                        deleted |-> FALSE])
                /\ shots_tbl' = Append(shots_tbl, << >>)
                /\ progress_store' =
                      (sim_id :> InitialProgress(data.numShots.num,
                                                 StateRows[data.stateID.num].symbol,
                                                 GateTable[data.gateID.num]))
                          @@ progress_store
                /\ tasks' = Append(tasks, NewTask(data))
                /\ called' = Append(called, << >>)
                /\ daily_count' = daily_count + 1
                /\ response' = [status_code |-> 202, simID |-> sim_id]
           ELSE /\ response' = [status_code |-> status]
                /\ UNCHANGED << simulations, shots_tbl, progress_store, tasks,
                                called, daily_count >>
        /\ UNCHANGED << states_tbl, polled >>

\* post_simulations (main.py lines 258-286) with add_async, the request's
\* body being there when the handler starts: the daily guard answers 503,
\* else add_async answers.
PostSimulations(data) ==
    /\ \E fails_at \in DbCalls :
          AnswerRequest(data, IF daily_count >= DAILY_QUERY_LIMIT THEN 503
                              ELSE add_async_status(data, fails_at))
    /\ UNCHANGED << engineVars, concVars, formVars, guardVars, boundaryVars >>

\* The except clause of generate_shots_background (lines 382-384).
BgRaise(sim_id, e) ==
    /\ tasks' = [tasks EXCEPT ![sim_id].pc = "returned"]
    /\ progress_store' = error_progress(progress_store, sim_id,
                                         [text |-> "Error generating shots", error |-> e])

\* Lines 313-320: the gate's symbol is looked up and its wrapper stripped.
BgLookupGate(sim_id) ==
    /\ sim_id \in DOMAIN tasks /\ tasks[sim_id].pc = "lookup_gate"
    /\ \/ /\ tasks' = [tasks EXCEPT
                  ![sim_id].gate_symbol_wrapped = GateTable[tasks[sim_id].data.gateID.num],
                  ![sim_id].gate_symbol =
                      strip_symbol_wrapper(GateTable[tasks[sim_id].data.gateID.num]),
                  ![sim_id].pc = "lookup_state"]
          /\ UNCHANGED progress_store
       \/ BgRaise(sim_id, "OperationalError")
    /\ UNCHANGED << states_tbl, simulations, shots_tbl, daily_count, called, response, polled >>
    /\ UNCHANGED << engineVars, concVars, formVars, guardVars, boundaryVars >>

\* Lines 322-333: the state's row is read; without a row the run ends in
\* status "error".
BgLookupState_NoReturn(sim_id) ==
    /\ sim_id \in DOMAIN tasks /\ tasks[sim_id].pc = "lookup_state"
    /\ \/ /\ tasks' = [tasks EXCEPT ![sim_id].pc = "generate"]
          /\ progress_store' =
                IF tasks[sim_id].data.stateID.num \in states_tbl
                THEN progress_store
                ELSE error_progress(progress_store, sim_id, [text |-> "State not found"])
       \/ BgRaise(sim_id, "OperationalError")
    /\ UNCHANGED << states_tbl, simulations, shots_tbl, daily_count, called, response, polled >>
    /\ UNCHANGED << engineVars, concVars, formVars, guardVars, boundaryVars >>

BgLookupState(sim_id) ==
    /\ sim_id \in DOMAIN tasks /\ tasks[sim_id].pc = "lookup_state"
    /\ \/ IF tasks[sim_id].data.stateID.num \in states_tbl
          THEN /\ tasks' = [tasks EXCEPT ![sim_id].pc = "generate"]
               /\ UNCHANGED progress_store
          ELSE /\ tasks' = [tasks EXCEPT ![sim_id].pc = "returned"]
               /\ progress_store' = error_progress(progress_store, sim_id,
                                                    [text |-> "State not found"])
       \/ BgRaise(sim_id, "OperationalError")
    /\ UNCHANGED << states_tbl, simulations, shots_tbl, daily_count, called, response, polled >>
    /\ UNCHANGED << engineVars, concVars, formVars, guardVars, boundaryVars >>

\* Lines 335-360: the algorithm is selected and the engine called; the call
\* takes its draws from the process's generator.
BgGenerate(sim_id) ==
    /\ sim_id \in DOMAIN tasks /\ tasks[sim_id].pc = "generate"
    /\    LET t == tasks[sim_id]
              row == StateRows[t.data.stateID.num]
              num_shots == t.data.numShots.num
              rng == RngStream(rng_state, 2 * num_shots)
              supported == is_supported_gate(t.gate_symbol)
              shots_data ==
                  IF supported
                  THEN generate_shots(row.alphaReal, row.alphaImgn, row.betaReal,
                                      row.betaImgn, t.gate_symbol, num_shots, rng)
                  ELSE generate_shots_random_noise(row.alphaReal, row.alphaImgn,
                                                   row.betaReal, row.betaImgn,
                                                   num_shots, rng)
          IN  /\ called' = [called EXCEPT ![sim_id] =
                    Append(@, IF supported THEN "generate_shots"
                                           ELSE "generate_shots_random_noise")]
              /\ IF shots_data.raised # "none"
                 THEN /\ BgRaise(sim_id, shots_data.raised)
                      /\ UNCHANGED rng_state
                 ELSE /\ tasks' = [tasks EXCEPT ![sim_id].shots_data = shots_data.value,
                                                 ![sim_id].i = 0,
                                                 ![sim_id].pc = "insert"]
                      /\ rng_state' = RngAfter(rng_state, 2 * num_shots)
                      /\ UNCHANGED progress_store
    /\ UNCHANGED << states_tbl, simulations, shots_tbl, daily_count, response, polled >>
    /\ UNCHANGED << engineVars, calls, rng_seed, formVars, guardVars, boundaryVars >>

\* Lines 363-373: the next shot is inserted; after the last one the loop
\* is left.  What sp_insert_shot answers is not read (line 373): for a
\* simulation that was deleted the procedure stores nothing, and either
\* raises or answers a row the loop ignores.
BgInsertShot(sim_id) ==
    /\ sim_id \in DOMAIN tasks /\ tasks[sim_id].pc = "insert"
    /\ tasks[sim_id].i < Len(tasks[sim_id].shots_data)
    /\ \/ /\ shots_tbl' = IF simulations[sim_id].deleted
                          THEN shots_tbl
                          ELSE [shots_tbl EXCEPT ![sim_id] =
                                  Append(@, tasks[sim_id].shots_data[tasks[sim_id].i + 1])]
          /\ tasks' = [tasks EXCEPT ![sim_id].pc = "update"]
          /\ UNCHANGED progress_store
       \/ /\ BgRaise(sim_id, "OperationalError")
          /\ UNCHANGED shots_tbl
    /\ UNCHANGED << states_tbl, simulations, daily_count, called, response, polled >>
    /\ UNCHANGED << engineVars, concVars, formVars, guardVars, boundaryVars >>

\* Line 376: the progress is updated after the shot.
BgUpdateProgress(sim_id) ==
    /\ sim_id \in DOMAIN tasks /\ tasks[sim_id].pc = "update"
    /\ progress_store' = update_progress(progress_store, sim_id, tasks[sim_id].i + 1)
    /\ tasks' = [tasks EXCEPT ![sim_id].i = @ + 1, ![sim_id].pc = "insert"]
    /\ UNCHANGED << states_tbl, simulations, shots_tbl, daily_count, called, response, polled >>
    /\ UNCHANGED << engineVars, concVars, formVars, guardVars, boundaryVars >>

\* Lines 378-380: the loop is over, the simulation is marked complete.
BgComplete_BeforeLast(sim_id) ==
    /\ sim_id \in DOMAIN tasks /\ tasks[sim_id].pc = "insert"
    /\ ~ (tasks[sim_id].i < Len(tasks[sim_id].shots_data) - 1)
    /\ progress_store' = complete_progress(progress_store, sim_id)
    /\ tasks' = [tasks EXCEPT ![sim_id].pc = "returned"]
    /\ UNCHANGED << states_tbl, simulations, shots_tbl, daily_count, called, response, polled >>
    /\ UNCHANGED << engineVars, concVars, formVars, guardVars, boundaryVars >>

BgComplete(sim_id) ==
    /\ sim_id \in DOMAIN tasks /\ tasks[sim_id].pc = "insert"
    /\ ~ (tasks[sim_id].i < Len(tasks[sim_id].shots_data))
    /\ progress_store' = complete_progress(progress_store, sim_id)
    /\ tasks' = [tasks EXCEPT ![sim_id].pc = "returned"]
    /\ UNCHANGED << states_tbl, simulations, shots_tbl, daily_count, called, response, polled >>
    /\ UNCHANGED << engineVars, concVars, formVars, guardVars, boundaryVars >>

\* clear_progress (lines 108-114), from DELETE /simulations/{id}/progress.
ClearProgress(sim_id) ==
    /\ sim_id \in DOMAIN progress_store
    /\ progress_store' = [s \in DOMAIN progress_store \ { sim_id } |-> progress_store[s]]
    /\ UNCHANGED << states_tbl, simulations, shots_tbl, daily_count, tasks, called, response, polled >>
    /\ UNCHANGED << engineVars, concVars, formVars, guardVars, boundaryVars >>

\* get_progress (lines 82-106): None without an entry, else the entry's
\* fields with pct, the truncated percentage.
get_progress_Placeholder(store, sim_id) ==
    IF sim_id \notin DOMAIN store
    THEN [simID |-> sim_id, current |-> 0, total |-> 0, pct |-> 0,
          status |-> "processing", message |-> [text |-> ""],
          state_symbol |-> "", gate_symbol |-> << >>]
    ELSE LET progress == store[sim_id]
             total == progress.total
             current == progress.current
         IN  [simID |-> sim_id, current |-> current, total |-> total,
              pct |-> IF total > 0 THEN (current * 100) \div total ELSE 0,
              status |-> progress.status, message |-> progress.message,
              state_symbol |-> progress.state_symbol,
              gate_symbol |-> progress.gate_symbol]

get_progress(store, sim_id) ==
    IF sim_id \notin DOMAIN store
    THEN None
    ELSE LET progress == store[sim_id]
             total == progress.total
             current == progress.current
         IN  [simID |-> sim_id, current |-> current, total |-> total,
              pct |-> IF total > 0 THEN (current * 100) \div total ELSE 0,
              status |-> progress.status, message |-> progress.message,
              state_symbol |-> progress.state_symbol,
              gate_symbol |-> progress.gate_symbol]

\* get_simulation_progress (main.py lines 289-304): 404 when get_progress
\* returns None, else 200 with what it returned.
GetProgress(sim_id) ==
    /\ LET progress == get_progress(progress_store, sim_id)
       IN  polled' = IF progress = None
                     THEN [status_code |-> 404, simID |-> sim_id]
                     ELSE [status_code |-> 200, simID |-> sim_id, content |-> progress]
    /\ UNCHANGED << states_tbl, simulations, shots_tbl, progress_store, daily_count,
                    tasks, called, response >>
    /\ UNCHANGED << engineVars, concVars, formVars, guardVars, boundaryVars >>

\* SimulationsUsecase.delete (lines 386-399), from DELETE /simulations/{id}:
\* the simulation's row is deleted and its shots with it (CASCADE); its
\* simID is not given again.  The progress store is not touched.
DeleteSimulation(sim_id) ==
    /\ sim_id \in DOMAIN simulations /\ ~ simulations[sim_id].deleted
    /\ simulations' = [simulations EXCEPT ![sim_id].deleted = TRUE]
    /\ shots_tbl' = [shots_tbl EXCEPT ![sim_id] = << >>]
    /\ UNCHANGED << states_tbl, progress_store, daily_count, tasks, called, response,
                    polled >>
    /\ UNCHANGED << engineVars, concVars, formVars, guardVars, boundaryVars >>

\* StatesUsecase.delete (states_usecase.py lines 189-204): the state's row
\* is removed.
DeleteState(state_id) ==
    /\ state_id \in states_tbl
    /\ states_tbl' = states_tbl \ { state_id }
    /\ UNCHANGED << simulations, shots_tbl, progress_store, daily_count, tasks, called,
                    response, polled >>
    /\ UNCHANGED << engineVars, concVars, formVars, guardVars, boundaryVars >>

\* A step of the background run of sim_id, which BackgroundTasks starts
\* once the 202 answer is sent and which runs to its return.
BgRun(sim_id) ==
    \/ BgLookupGate(sim_id)
    \/ BgLookupState(sim_id)
    \/ BgGenerate(sim_id)
    \/ BgInsertShot(sim_id)
    \/ BgUpdateProgress(sim_id)
    \/ BgComplete(sim_id)

NextOrch ==
    \/ \E data \in Requests : PostSimulations(data)
    \/ \E sim_id \in 1..MaxSims :
          \/ BgLookupGate(sim_id)
          \/ BgLookupState(sim_id)
          \/ BgGenerate(sim_id)
          \/ BgInsertShot(sim_id)
          \/ BgUpdateProgress(sim_id)
          \/ BgComplete(sim_id)
          \/ ClearProgress(sim_id)
          \/ GetProgress(sim_id)
          \/ DeleteSimulation(sim_id)
    \/ \E state_id \in DOMAIN StateRows : DeleteState(state_id)

\* ============================================== concurrent POST /simulations
\* post_simulations is a coroutine: between its daily guard (main.py line
\* 266) and the rest of it stands "await request.json()" (line 269), where
\* the event loop may run the handler of another request.  From there to
\* its return the handler does not await.

\* Requests in flight at once.
MaxPosts == 2

\* Their bodies: ones add_async accepts (numShots at either end of the
\* range), ones it refuses (numShots just outside the range, a field that
\* is absent, no number, or infinite, a body that is no object), and one
\* that names an unknown gate.
GuardBodies ==
    { Body(Num(1), Num(1), Num(MinNumShots)),
      Body(Num(2), Num(3), Num(MaxNumShots)),
      Body(Num(1), Num(1), Num(MinNumShots - 1)),
      Body(Num(1), Num(1), Num(MaxNumShots + 1)),
      Body(None, Num(1), Num(MinNumShots)),
      Body(Num(1), Text("abc"), Num(MinNumShots)),
      Body(Num(1), Num(9), Num(MinNumShots)),
      Body(Num(1), Infinity, Num(MinNumShots)),
      ArrayBody }

\* The day's counter is at most MaxPosts short of the limit.
InitGuard ==
    /\ states_tbl = DOMAIN StateRows
    /\ simulations = << >>
    /\ shots_tbl = << >>
    /\ progress_store = << >>
    /\ daily_count \in (DAILY_QUERY_LIMIT - MaxPosts) .. DAILY_QUERY_LIMIT
    /\ tasks = << >>
    /\ called = << >>
    /\ response = [status_code |-> 0]
    /\ polled = [status_code |-> 0]
    /\ posts \in [1..MaxPosts ->
                    { [pc |-> "guard", data |-> d, seen |-> 0, status_code |-> 0] :
                        d \in GuardBodies }]

\* main.py lines 265-269: the guard reads the counter (get_daily_count,
\* lines 67-74) and answers 503 at the limit; else the handler awaits the
\* body.  seen records the value read.
PostGuard(r) ==
    /\ posts[r].pc = "guard"
    /\ posts' = [posts EXCEPT ![r] =
          IF daily_count >= DAILY_QUERY_LIMIT
          THEN [@ EXCEPT !.pc = "done", !.seen = daily_count, !.status_code = 503]
          ELSE [@ EXCEPT !.pc = "body", !.seen = daily_count]]
    /\ UNCHANGED << engineVars, concVars, orchVars, formVars, boundaryVars >>

\* main.py lines 269-286: the body is there; add_async answers, and with
\* 202 the task is scheduled and the counter incremented (increment_count,
\* lines 77-82).
PostResume(r) ==
    /\ posts[r].pc = "body"
    /\ \E fails_at \in DbCalls :
          LET status == add_async_status(posts[r].data, fails_at)
          IN  /\ AnswerRequest(posts[r].data, status)
              /\ posts' = [posts EXCEPT ![r] = [@ EXCEPT !.pc = "done",
                                                          !.status_code = status]]
    /\ UNCHANGED << engineVars, concVars, formVars, boundaryVars >>

NextGuard == \E r \in 1..MaxPosts : PostGuard(r) \/ PostResume(r)

\* ============================================================ the states page
\* POST /states and PUT /states/{id}: StatesUsecase.add and .edit
\* (states_usecase.py).  The amplitudes of a form are multiples of 1/SScale,
\* so that a squared norm is a multiple of 1/SScale^2 = 0.0001.

SScale == 100

\* abs(norm_squared - 1.0) > 0.0001, in units of 1/SScale^2.
NormTolerance == 1

\* len(name) > 45, len(description) > 100.
NameLimit == 45

DescriptionLimit == 100

Repeat(ch, n) == [k \in 1..n |-> ch]

RECURSIVE lstrip(_)
lstrip(str) == IF str # << >> /\ str[1] = " " THEN lstrip(Tail(str)) ELSE str

RECURSIVE rstrip(_)
rstrip(str) ==
    IF str # << >> /\ str[Len(str)] = " " THEN rstrip(SubSeq(str, 1, Len(str) - 1)) ELSE str

\* str.strip(), of blanks.
strip(str) == rstrip(lstrip(str))

Amplitudes(data) == << data.alphaReal, data.alphaImgn, data.betaReal, data.betaImgn >>

\* Line 56: alpha_real**2 + alpha_imgn**2 + beta_real**2 + beta_imgn**2.
norm_squared(data) ==
    data.alphaReal.num * data.alphaReal.num + data.alphaImgn.num * data.alphaImgn.num
        + data.betaReal.num * data.betaReal.num + data.betaImgn.num * data.betaImgn.num

\* Line 57: the normalization test, TRUE when the state is refused.
NotNormalized_Loose(data) ==
    norm_squared(data) - SScale * SScale > 10 * NormTolerance
        \/ SScale * SScale - norm_squared(data) > 10 * NormTolerance

NotNormalized(data) ==
    norm_squared(data) - SScale * SScale > NormTolerance
        \/ SScale * SScale - norm_squared(data) > NormTolerance

\* _validate_state_data (lines 28-85): "" when the data is accepted, else
\* the reason it is refused for.
validate_state_data(data) ==
    IF \E k \in 1..4 : ~ IsNumber(Amplitudes(data)[k])
        THEN "Invalid data format"
    ELSE IF ~ \A k \in 1..4 : /\ -SScale <= Amplitudes(data)[k].num
                               /\ Amplitudes(data)[k].num <= SScale
        THEN "All amplitude values must be between -1 and 1"
    ELSE IF \A k \in 1..4 : Amplitudes(data)[k].num = 0
        THEN "Coefficients cannot be all zero"
    ELSE IF NotNormalized(data)
        THEN "must equal 1"
    ELSE IF strip(data.name) = << >> \/ Len(strip(data.name)) > NameLimit
        THEN "Name must be 1-45 characters"
    ELSE IF strip(data.symbol) = << >> \/ Len(strip(data.symbol)) # 1
        THEN "Symbol must be exactly 1 character"
    ELSE IF strip(data.description) = << >>
              \/ Len(strip(data.description)) > DescriptionLimit
        THEN "Description must be 1-100 characters"
    ELSE ""

\* _to_sp_params (lines 87-122).
to_sp_params(data, include_id) ==
    LET common == [p_name |-> data.name,
                   p_alphaReal |-> data.alphaReal, p_alphaImgn |-> data.alphaImgn,
                   p_betaReal |-> data.betaReal, p_betaImgn |-> data.betaImgn,
                   p_symbol |-> <<"|">> \o strip(data.symbol) \o <<">">>,
                   p_description |-> strip(data.description)]
    IN  IF include_id THEN [p_stateID |-> data.stateID] @@ common ELSE common

\* What _execute of a stored procedure does: it raises, or returns a row
\* with the procedure's code.
DbOutcomes == { [raises |-> TRUE, code |-> 0] } \cup
              { [raises |-> FALSE, code |-> c] : c \in { 200, 201, 404, 409 } }

\* Amplitudes of the forms, in units of 1/SScale: normalized ones; ones at
\* distance exactly 0.0001 from norm 1 on either side, and just beyond;
\* far from normalized; all zero; out of range.
FormAmplitudes ==
    { << 100, 0, 0, 0 >>, << 60, 0, 0, 80 >>, << 0, -60, 80, 0 >>,
      << 100, 0, 1, 0 >>, << 99, 14, 1, 1 >>,
      << 100, 1, 1, 0 >>, << 99, 14, 1, 0 >>,
      << 50, 50, 50, 0 >>, << 70, 0, 70, 0 >>, << 100, 0, 100, 0 >>,
      << 0, 0, 0, 0 >>, << 101, 0, 0, 0 >>, << -101, 0, 14, 2 >> }

FormTexts ==
    { [name |-> <<"q">>, symbol |-> <<"s">>, description |-> <<"d">>],
      [name |-> <<" ", "q", " ">>, symbol |-> <<" ", "s">>,
       description |-> Repeat("d", DescriptionLimit)],
      [name |-> Repeat("n", NameLimit + 1), symbol |-> <<"s">>, description |-> <<"d">>],
      [name |-> <<"q">>, symbol |-> <<"s", "t">>, description |-> <<"d">>],
      [name |-> <<"q">>, symbol |-> <<"s">>, description |-> <<" ">>] }

\* The forms: numeric amplitudes with every set of texts, and forms with an
\* amplitude that is no number or is absent.
Forms ==
    { [alphaReal |-> Num(a[1]), alphaImgn |-> Num(a[2]), betaReal |-> Num(a[3]),
       betaImgn |-> Num(a[4]), name |-> t.name, symbol |-> t.symbol,
       description |-> t.description, stateID |-> 1] :
        a \in FormAmplitudes, t \in FormTexts } \cup
    { [alphaReal |-> x, alphaImgn |-> Num(0), betaReal |-> Num(0),
       betaImgn |-> Num(0), name |-> <<"q">>, symbol |-> <<"s">>,
       description |-> <<"d">>, stateID |-> 1] : x \in { Text("abc"), None } }

InitForm ==
    /\ \E op \in { "add", "edit" }, data \in Forms : form = [op |-> op, data |-> data]
    /\ form_pc = "call"
    /\ sp_calls = << >>
    /\ form_response = [status_code |-> 0]

\* The body add and edit share: validation, then the stored procedure; an
\* exception of _execute becomes status 500 (db_error_handler).
AddOrEdit(sp, include_id) ==
    /\ form_pc = "call"
    /\ IF validate_state_data(form.data) # ""
       THEN /\ form_response' = [status_code |-> 400,
                                  message |-> validate_state_data(form.data)]
            /\ UNCHANGED sp_calls
       ELSE \E db \in DbOutcomes :
              /\ sp_calls' = Append(sp_calls,
                                    [sp |-> sp, params |-> to_sp_params(form.data, include_id)])
              /\ form_response' = [status_code |-> IF db.raises THEN 500 ELSE db.code]
    /\ form_pc' = "done"
    /\ UNCHANGED form
    /\ UNCHANGED << engineVars, concVars, orchVars, guardVars, boundaryVars >>

\* StatesUsecase.add (lines 141-163).
StatesAdd == form.op = "add" /\ AddOrEdit("sp_insert_state", FALSE)

\* StatesUsecase.edit (lines 165-187).
StatesEdit == form.op = "edit" /\ AddOrEdit("sp_edit_state", TRUE)

NextForm == StatesAdd \/ StatesEdit

\* ================================================== the database boundary
\* The operations the routes of main.py call on the usecases.  Each makes
\* its database calls through UsecaseBase._execute, which may raise; the
\* decorator db_error_handler (utils/decorators.py lines 15-41), where an
\* operation has it, turns any exception into a response dict with status
\* 500.

\* What _execute raises when the database fails.
DbErrors == { "OperationalError", "IntegrityError", "ProgrammingError", "DataError",
              "TimeoutError" }

\* An operation: the number of _execute calls on its longest path, whether
\* it is decorated with db_error_handler, whether it validates its input
\* before the first call, and the status codes it answers after so many
\* calls have returned (for a stored procedure, the code of its row).
Operation(method, db_calls, decorated, validates, codes) ==
    [method |-> method, db_calls |-> db_calls, decorated |-> decorated,
     validates |-> validates, codes |-> codes]

Operations ==
    { Operation("StatesUsecase.show", 1, TRUE, FALSE, << { 200 } >>),
      Operation("StatesUsecase.add", 1, TRUE, TRUE, << { 201, 409 } >>),
      Operation("StatesUsecase.edit", 1, TRUE, TRUE, << { 200, 404, 409 } >>),
      Operation("StatesUsecase.delete", 1, TRUE, FALSE, << { 204, 404, 409 } >>),
      Operation("GatesUsecase.show", 1, TRUE, FALSE, << { 200 } >>),
      Operation("ShotsUsecase.show", 1, TRUE, FALSE, << { 200 } >>),
      Operation("ShotsUsecase.filter", 3, TRUE, FALSE, << { }, { }, { 200 } >>),
      Operation("SimulationsUsecase.show", 3, TRUE, FALSE, << { }, { }, { 200 } >>),
      Operation("SimulationsUsecase.add_async", 3, TRUE, TRUE,
                << { 404 }, { 404 }, { 202, 409 } >>),
      Operation("SimulationsUsecase.delete", 1, TRUE, FALSE, << { 204, 404 } >>),
      Operation("IndexUsecase.reset", 1, FALSE, FALSE, << { 200 } >>) }

\* _build_json_response (base_usecase.py lines 129-153), the status alone.
build_json_response(status_code) == [status_code |-> status_code]

\* db_error_handler's answer to an exception (decorators.py lines 34-40).
ErrorResponse(e) == [status_code |-> 500, error |-> e]

\* A route calls an operation.
InitBoundary ==
    /\ op_call \in { [method |-> o.method, op |-> o, valid |-> v] :
                       o \in Operations, v \in BOOLEAN }
    /\ op_call.valid \/ op_call.op.validates
    /\ op_done = 0
    /\ op_raised = "none"
    /\ op_result = Pending

\* The input does not pass _validate_state_data or
\* _validate_simulation_data: 400, before any database call.
RefuseInvalid ==
    /\ op_result = Pending /\ op_done = 0
    /\ ~ op_call.valid
    /\ op_result' = Returned(build_json_response(400))
    /\ UNCHANGED << op_call, op_done, op_raised >>
    /\ UNCHANGED << engineVars, concVars, orchVars, formVars, guardVars >>

\* The next _execute returns.
Execute ==
    /\ op_result = Pending /\ op_call.valid
    /\ op_done < op_call.op.db_calls
    /\ op_done' = op_done + 1
    /\ UNCHANGED << op_call, op_raised, op_result >>
    /\ UNCHANGED << engineVars, concVars, orchVars, formVars, guardVars >>

\* The next _execute raises e: a decorated operation returns the 500
\* response, another lets e go to the route.
ExecuteRaises(e) ==
    /\ op_result = Pending /\ op_call.valid
    /\ op_done < op_call.op.db_calls
    /\ op_raised' = e
    /\ op_result' = IF op_call.op.decorated THEN Returned(ErrorResponse(e)) ELSE Raised(e)
    /\ UNCHANGED << op_call, op_done >>
    /\ UNCHANGED << engineVars, concVars, orchVars, formVars, guardVars >>

\* The operation returns its response after the calls made so far.
ReturnResponse(status_code) ==
    /\ op_result = Pending /\ op_call.valid
    /\ op_done \in 1..op_call.op.db_calls
    /\ status_code \in op_call.op.codes[op_done]
    /\ op_result' = Returned(build_json_response(status_code))
    /\ UNCHANGED << op_call, op_done, op_raised >>
    /\ UNCHANGED << engineVars, concVars, orchVars, formVars, guardVars >>

NextBoundary ==
    \/ RefuseInvalid
    \/ Execute
    \/ \E e \in DbErrors : ExecuteRaises(e)
    \/ \E status_code \in { 200, 201, 202, 204, 404, 409 } : ReturnResponse(status_code)

\* ========================================================== specifications

vars == << engineVars, concVars, orchVars, formVars, guardVars, boundaryVars >>

\* Variables of the other specifications, at rest.
IdleEngine ==
    /\ args = MkArgs("is_supported_gate", << 0, 0, 0, 0 >>, << >>, 0)
    /\ pc = "done"
    /\ final_state = build_state_vector(0, 0, 0, 0)
    /\ prob_zero = 0
    /\ i = 0
    /\ shots = << >>
    /\ draws = << >>
    /\ outcome = Pending

IdleConc ==
    /\ calls = << >>
    /\ rng_seed = 0
    /\ rng_state = 0

IdleOrch ==
    /\ states_tbl = { }
    /\ simulations = << >>
    /\ shots_tbl = << >>
    /\ progress_store = << >>
    /\ daily_count = 0
    /\ tasks = << >>
    /\ called = << >>
    /\ response = [status_code |-> 0]
    /\ polled = [status_code |-> 0]

IdleForm ==
    /\ form = [op |-> "none"]
    /\ form_pc = "done"
    /\ sp_calls = << >>
    /\ form_response = [status_code |-> 0]

IdleGuard == posts = << >>

IdleBoundary ==
    /\ op_call = [method |-> "none"]
    /\ op_done = 0
    /\ op_raised = "none"
    /\ op_result = Pending

Init == InitEngine /\ IdleConc /\ IdleOrch /\ IdleForm /\ IdleGuard /\ IdleBoundary

Next == NextEngine

\* One engine call.
Spec == Init /\ [][Next]_vars

InitTwoCalls ==
    InitConc /\ IdleEngine /\ IdleOrch /\ IdleForm /\ IdleGuard /\ IdleBoundary

\* Two engine calls in two threads.
SpecConc == InitTwoCalls /\ [][NextConc]_vars

InitTwice ==
    InitRepeat /\ IdleEngine /\ IdleOrch /\ IdleForm /\ IdleGuard /\ IdleBoundary

\* One call made twice, the generator seeded alike before each.
SpecRepeat == InitTwice /\ [][NextRepeat]_vars

InitPosts == InitGuard /\ IdleEngine /\ IdleConc /\ IdleForm /\ IdleBoundary

\* Concurrent requests to POST /simulations.
SpecGuard == InitPosts /\ [][NextGuard]_vars

InitStates ==
    InitForm /\ IdleEngine /\ IdleConc /\ IdleOrch /\ IdleGuard /\ IdleBoundary

\* One request to the states page.
SpecStates == InitStates /\ [][NextForm]_vars

InitLayer ==
    /\ InitOrch
    /\ IdleEngine
    /\ calls = << >>
    /\ rng_seed \in 0..MaxSeed
    /\ rng_state = rng_seed
    /\ IdleForm
    /\ IdleGuard
    /\ IdleBoundary

\* The simulations layer: requests, background tasks, the progress store.
SpecOrch == InitLayer /\ [][NextOrch]_vars

\* The simulations layer, every scheduled background run being run on.
SpecOrchFair == SpecOrch /\ \A sim_id \in 1..MaxSims : WF_vars(BgRun(sim_id))

InitRoute ==
    InitBoundary /\ IdleEngine /\ IdleConc /\ IdleOrch /\ IdleForm /\ IdleGuard

\* One usecase operation called by a route.
SpecBoundary == InitRoute /\ [][NextBoundary]_vars

\* ================================================================== claims
\* The engine's claims, checked under Spec.

FiveGates == { <<"X">>, <<"Y">>, <<"Z">>, <<"H">>, <<"I">> }

IsGeneration == args.fn \in {"generate_shots", "generate_shots_random_noise"}

\* The call is one that the gate library does not refuse.
GateAccepted == args.fn = "generate_shots_random_noise" \/ args.gate_symbol \in FiveGates

Abs(x) == IF x < 0 THEN -x ELSE x

\* C1: generateShots and generateShotsNoiseOnly fail with
\* InvalidArgumentError, returning no records, whenever numShots <= 0 (the
\* gate symbol of generateShots being a supported one, so that no other
\* failure comes first).
C1_NonPositiveShotsFail ==
    (pc = "done" /\ IsGeneration /\ GateAccepted /\ args.num_shots <= 0)
        => outcome = Raised("InvalidArgumentError")

\* C2: for a symbol that is not one of X, Y, Z, H, I, applyGate and
\* generateShots fail with the gate library's error (ValueError in the
\* code), and generateShots fails before it draws anything or produces any
\* shot record: it never enters its loop and returns nothing.
C2_UnsupportedGateFails ==
    (args.fn \in {"apply_gate", "generate_shots"} /\ args.gate_symbol \notin FiveGates)
        => /\ pc # "loop"
           /\ shots = << >>
           /\ draws = << >>
           /\ pc = "done" => outcome = Raised("ValueError")

C2_Witness ==
    /\ pc = "done"
    /\ args.fn = "generate_shots"
    /\ args.gate_symbol = <<"X", "Y">>
    /\ args.num_shots = MaxShots
    /\ outcome = Raised("ValueError")

\* C3: isSupportedGate returns a boolean for every symbol, without failing,
\* and returns true exactly for X, Y, Z, H, I.
C3_IsSupportedTotal ==
    (pc = "done" /\ args.fn = "is_supported_gate")
        => /\ outcome.raised = "none"
           /\ outcome.value \in BOOLEAN
           /\ outcome.value <=> (args.gate_symbol \in FiveGates)

C3_Witness ==
    /\ pc = "done"
    /\ args.fn = "is_supported_gate"
    /\ args.gate_symbol = <<"I">>
    /\ outcome = Returned(TRUE)

\* C5: for a supported gate symbol and numShots > 0, generateShots returns
\* exactly numShots records, and so does generateShotsNoiseOnly for every
\* numShots > 0.
C5_ExactlyNumShots ==
    (pc = "done" /\ IsGeneration /\ GateAccepted /\ args.num_shots > 0)
        => /\ outcome.raised = "none"
           /\ Len(outcome.value) = args.num_shots

C5_Witness ==
    /\ pc = "done"
    /\ args.fn = "generate_shots"
    /\ args.gate_symbol = <<"H">>
    /\ args.num_shots = MaxShots
    /\ outcome.raised = "none"
    /\ Len(outcome.value) = MaxShots

\* The textbook product of each gate with (a, b), component by component, in
\* units of 1/Unit: X swaps, Y gives (-i b, i a), Z negates b, H gives
\* ((a + b)/sqrt 2, (a - b)/sqrt 2), I changes nothing.
Scaled(z) == Cx(GScale * z.re, GScale * z.im)

Textbook(g, a, b) ==
    CASE g = <<"X">> -> << Scaled(b), Scaled(a) >>
      [] g = <<"Y">> -> << Cx(GScale * b.im, -GScale * b.re),
                           Cx(-GScale * a.im, GScale * a.re) >>
      [] g = <<"Z">> -> << Scaled(a), Cx(-GScale * b.re, -GScale * b.im) >>
      [] g = <<"H">> -> << Cx(InvSqrt2 * (a.re + b.re), InvSqrt2 * (a.im + b.im)),
                           Cx(InvSqrt2 * (a.re - b.re), InvSqrt2 * (a.im - b.im)) >>
      [] g = <<"I">> -> << Scaled(a), Scaled(b) >>

\* C6: applyGate(state, symbol) is the complex matrix-vector product of the
\* gate with the state: for each of X, Y, Z, H, I it returns the textbook
\* product, and on the basis states in particular Y maps (1,0) to (0,i) and
\* (0,1) to (-i,0), and H maps (1,0) to (1/sqrt 2, 1/sqrt 2).
C6_TextbookProduct ==
    (pc = "done" /\ args.fn = "apply_gate" /\ args.gate_symbol \in FiveGates)
        => /\ outcome.raised = "none"
           /\ outcome.value = Textbook(args.gate_symbol,
                                        Cx(args.alpha_real, args.alpha_imgn),
                                        Cx(args.beta_real, args.beta_imgn))
           /\ (args.gate_symbol = <<"Y">> /\ args.alpha_real = AScale)
                 => outcome.value = << Cx(0, 0), Cx(0, Unit) >>
           /\ (args.gate_symbol = <<"Y">> /\ args.beta_real = AScale)
                 => outcome.value = << Cx(0, -Unit), Cx(0, 0) >>
           /\ (args.gate_symbol = <<"H">> /\ args.alpha_real = AScale)
                 => outcome.value = << Cx(InvSqrt2 * AScale, 0), Cx(InvSqrt2 * AScale, 0) >>

C6_Witness ==
    /\ pc = "done"
    /\ args.fn = "apply_gate"
    /\ args.gate_symbol = <<"Y">>
    /\ args.beta_real = AScale
    /\ outcome = Returned(<< Cx(0, -Unit), Cx(0, 0) >>)

\* The exact post-gate state of a generate_shots call.
ExactFinal ==
    apply_gate(build_state_vector(args.alpha_real, args.alpha_imgn,
                                  args.beta_real, args.beta_imgn),
               args.gate_symbol).value

\* C7: in every record of generateShots each of the four perturbed
\* components lies within 0.00005 of the same component of the exact
\* post-gate amplitude.
C7_WithinNoise ==
    args.fn = "generate_shots"
        => \A k \in 1..Len(shots) :
              /\ Abs(shots[k].alphaReal - ExactFinal[1].re) <= NoiseMax
              /\ Abs(shots[k].alphaImgn - ExactFinal[1].im) <= NoiseMax
              /\ Abs(shots[k].betaReal - ExactFinal[2].re) <= NoiseMax
              /\ Abs(shots[k].betaImgn - ExactFinal[2].im) <= NoiseMax

C7_Witness ==
    /\ pc = "done"
    /\ args.fn = "generate_shots"
    /\ args.gate_symbol = <<"H">>
    /\ outcome.raised = "none"
    /\ Len(outcome.value) = MaxShots
    /\ outcome.value[1].alphaReal = ExactFinal[1].re - NoiseMax
    /\ outcome.value[2].betaImgn = ExactFinal[2].im + 1

\* Beta components (real, imaginary) a second call is given.
OtherBetas == { << 0, 0 >>, << 16, 0 >>, << 0, 16 >>, << -16, 0 >>, << AScale, 0 >> }

\* C8: in generateShotsNoiseOnly the outputState of a record depends on the
\* perturbed alpha components alone: a call with the same alpha and the same
\* draws but another beta produces the same outputState in every record.
C8_OutputIgnoresBeta ==
    args.fn = "generate_shots_random_noise"
        => \A k \in 1..Len(shots) : \A b \in OtherBetas :
              NoiseShot(args.alpha_real, args.alpha_imgn, b[1], b[2],
                        draws[k].variation, draws[k].u).outputState
                  = shots[k].outputState

C8_Witness ==
    /\ pc = "done"
    /\ args.fn = "generate_shots_random_noise"
    /\ << args.alpha_real, args.alpha_imgn >> = << 12, 0 >>
    /\ << args.beta_real, args.beta_imgn >> = << 0, 16 >>
    /\ Len(shots) = MaxShots
    /\ shots[1].outputState = 0
    /\ shots[2].outputState = 1

IsDegenerate ==
    args.fn = "generate_shots_random_noise" /\ args.alpha_real = 0 /\ args.alpha_imgn = 0

\* C9 as stated: with alphaReal = alphaImgn = 0, p0 is 0 for every shot and
\* every record has outputState = 1, whatever the draws.
C9_DegenerateAlwaysOne ==
    IsDegenerate
        => /\ prob_zero = 0
           /\ \A k \in 1..Len(shots) : shots[k].outputState = 1

\* C9 amended: with alphaReal = alphaImgn = 0, the p0 of a shot is twice the
\* square of its noise draw, at most 2 * 0.00005^2, and the shot's
\* outputState is 1 exactly when its outcome draw is not below that p0; so
\* it is 1 for every outcome draw of at least 2 * 0.00005^2.
C9_DegeneratePerturbed ==
    IsDegenerate
        => /\ \A k \in 1..Len(shots) :
                LET v == draws[k].variation
                    u == draws[k].u
                IN  /\ shots[k].alphaReal = v /\ shots[k].alphaImgn = v
                    /\ 2 * v * v <= 2 * NoiseMax * NoiseMax
                    /\ shots[k].outputState = 1 <=> u >= 2 * v * v
                    /\ u >= 2 * NoiseMax * NoiseMax => shots[k].outputState = 1
           /\ Len(shots) > 0 =>
                prob_zero = 2 * draws[Len(shots)].variation * draws[Len(shots)].variation

C9_Witness ==
    /\ pc = "done"
    /\ IsDegenerate
    /\ Len(shots) = MaxShots
    /\ draws[1].variation = -NoiseMax /\ draws[1].u = 7 /\ shots[1].outputState = 0
    /\ draws[2].variation = 0 /\ draws[2].u = 0 /\ shots[2].outputState = 1

\* The number of records of a list with outputState 1.
Ones(list) == Cardinality({ k \in 1..Len(list) : list[k].outputState = 1 })

IsFlipOfZero ==
    /\ args.fn = "generate_shots"
    /\ args.gate_symbol = <<"X">>
    /\ << args.alpha_real, args.alpha_imgn, args.beta_real, args.beta_imgn >>
          = << AScale, 0, 0, 0 >>

\* C12: generateShots on alpha = 1, beta = 0 with gate X has p0 = 0, so no
\* outcome draw u in [0,1) is below p0: every record has outputState 1, and
\* so at least 99% of the records have.
C12_FlipAlwaysOne ==
    IsFlipOfZero
        => /\ pc # "call" => (final_state[1] = Cx(0, 0) /\ prob_zero = 0)
           /\ \A k \in 1..Len(shots) : shots[k].outputState = 1
           /\ 100 * Ones(shots) >= 99 * Len(shots)
           /\ pc = "done" => 100 * Ones(outcome.value) >= 99 * args.num_shots

C12_Witness ==
    /\ IsFlipOfZero
    /\ pc = "done"
    /\ args.num_shots = MaxShots
    /\ Len(outcome.value) = MaxShots
    /\ \A k \in 1..MaxShots : draws[k].u = 0 /\ outcome.value[k].outputState = 1

\* C13: every record of generateShots and of generateShotsNoiseOnly, in the
\* list being built and in the list returned, has outputState 0 or 1.
C13_OutputStateIsBit ==
    IsGeneration
        => /\ \A k \in 1..Len(shots) : shots[k].outputState \in { 0, 1 }
           /\ (pc = "done" /\ outcome.raised = "none")
                 => \A k \in 1..Len(outcome.value) : outcome.value[k].outputState \in { 0, 1 }

C13_Witness ==
    /\ pc = "done"
    /\ args.fn = "generate_shots"
    /\ args.gate_symbol = <<"H">>
    /\ outcome.raised = "none"
    /\ Len(outcome.value) = MaxShots
    /\ outcome.value[1].outputState = 0
    /\ outcome.value[MaxShots].outputState = 1

\* The amplitudes a record of the call is a perturbation of: the exact
\* post-gate state for generate_shots, the initial amplitudes for
\* generate_shots_random_noise (in units of 1/Unit).
Unperturbed ==
    IF args.fn = "generate_shots"
    THEN ExactFinal
    ELSE << Cx(GScale * args.alpha_real, GScale * args.alpha_imgn),
            Cx(GScale * args.beta_real, GScale * args.beta_imgn) >>

\* C18: within one shot a single noise scalar is shared by the four
\* components: in every record of generateShots the four differences from
\* the exact post-gate amplitudes are equal to each other (and to the
\* shot's noise draw), and likewise in generateShotsNoiseOnly relative to
\* the initial amplitudes.
C18_OneNoisePerShot ==
    IsGeneration
        => \A k \in 1..Len(shots) :
              LET d == shots[k].alphaReal - Unperturbed[1].re
              IN  /\ shots[k].alphaImgn - Unperturbed[1].im = d
                  /\ shots[k].betaReal - Unperturbed[2].re = d
                  /\ shots[k].betaImgn - Unperturbed[2].im = d
                  /\ d = draws[k].variation

C18_Witness ==
    /\ pc = "done"
    /\ args.fn = "generate_shots_random_noise"
    /\ << args.alpha_real, args.alpha_imgn, args.beta_real, args.beta_imgn >>
          = << 0, 12, -16, 0 >>
    /\ Len(shots) = MaxShots
    /\ draws[1].variation = -NoiseMax
    /\ shots[1] = ShotRecord(-NoiseMax, 12 * GScale - NoiseMax,
                             -16 * GScale - NoiseMax, -NoiseMax, shots[1].outputState)
    /\ draws[MaxShots].variation = 1

\* C19: in generateShots p0 = |alpha_f|^2 is computed once, from the exact
\* post-gate state, and is the same for every shot of the call; a shot's
\* outputState is 0 if and only if its outcome draw u is below p0,
\* whatever the shot's noise draw.
C19_ExactProbabilityOnce ==
    (args.fn = "generate_shots" /\ pc \in { "loop", "done" } /\ args.gate_symbol \in FiveGates)
        => /\ prob_zero = AbsSquared(ExactFinal[1])
           /\ \A k \in 1..Len(shots) :
                 shots[k].outputState = 0 <=> draws[k].u < AbsSquared(ExactFinal[1])

C19_Witness ==
    /\ pc = "done"
    /\ args.fn = "generate_shots"
    /\ args.gate_symbol = <<"I">>
    /\ << args.alpha_real, args.alpha_imgn, args.beta_real, args.beta_imgn >>
          = << 12, 0, 16, 0 >>
    /\ Len(shots) = MaxShots
    /\ prob_zero = 12 * GScale * 12 * GScale
    /\ draws[1].variation = -NoiseMax /\ draws[1].u = prob_zero - 1
    /\ shots[1].outputState = 0
    /\ draws[MaxShots].variation = 1 /\ draws[MaxShots].u = prob_zero
    /\ shots[MaxShots].outputState = 1

\* C20: generateShotsNoiseOnly applies no gate matrix: in every record each
\* of the four components lies within 0.00005 of the same component of the
\* initial amplitudes the call was given.
C20_NoiseAroundInitial ==
    args.fn = "generate_shots_random_noise"
        => \A k \in 1..Len(shots) :
              /\ Abs(shots[k].alphaReal - GScale * args.alpha_real) <= NoiseMax
              /\ Abs(shots[k].alphaImgn - GScale * args.alpha_imgn) <= NoiseMax
              /\ Abs(shots[k].betaReal - GScale * args.beta_real) <= NoiseMax
              /\ Abs(shots[k].betaImgn - GScale * args.beta_imgn) <= NoiseMax

C20_Witness ==
    /\ pc = "done"
    /\ args.fn = "generate_shots_random_noise"
    /\ << args.alpha_real, args.alpha_imgn, args.beta_real, args.beta_imgn >>
          = << 12, 0, 0, 16 >>
    /\ outcome.raised = "none"
    /\ Len(outcome.value) = MaxShots
    /\ outcome.value[1].alphaReal = 12 * GScale - NoiseMax
    /\ outcome.value[1].betaImgn = 16 * GScale - NoiseMax
    /\ outcome.value[MaxShots].betaImgn = 16 * GScale + 1

\* ------------------------------------------------- claims under SpecConc

\* What the call with arguments a returns when it runs alone from generator
\* state x.
RunAlone(a, x) ==
    IF a.fn = "generate_shots"
    THEN generate_shots(a.alpha_real, a.alpha_imgn, a.beta_real, a.beta_imgn,
                        a.gate_symbol, a.num_shots, RngStream(x, 2 * a.num_shots))
    ELSE generate_shots_random_noise(a.alpha_real, a.alpha_imgn, a.beta_real,
                                     a.beta_imgn, a.num_shots,
                                     RngStream(x, 2 * a.num_shots))

\* The number of draws the call with arguments a takes.
DrawsOf(a) == IF RunAlone(a, 0).raised = "none" THEN 2 * a.num_shots ELSE 0

Other(t) == CHOOSE o \in Threads : o # t

\* C10: two concurrent generation calls share no mutable state, so under
\* every interleaving each call returns the records it returns when the two
\* calls run one after the other (in either order).
C10_InterleavingInvisible ==
    (\A t \in Threads : calls[t].pc = "done")
        => \A t \in Threads :
              \/ calls[t].outcome = RunAlone(calls[t].args, rng_seed)
              \/ calls[t].outcome =
                    RunAlone(calls[t].args,
                             RngAfter(rng_seed, DrawsOf(calls[Other(t)].args)))

\* ----------------------------------------------- claims under SpecRepeat

WithinTolerance(a) ==
    /\ \A k \in 1..4 : IsNumber(a[k])
    /\ Abs(a[1].num * a[1].num + a[2].num * a[2].num + a[3].num * a[3].num
              + a[4].num * a[4].num - SScale * SScale) <= NormTolerance

\* C14: StatesUsecase.add and .edit call the insert/edit stored procedure
\* only with amplitudes whose squared norm is within 0.0001 of 1; for any
\* other amplitudes they return status 400 and make no database call.
C14_OnlyNormalizedPersisted ==
    /\ \A k \in 1..Len(sp_calls) :
          WithinTolerance(<< sp_calls[k].params.p_alphaReal, sp_calls[k].params.p_alphaImgn,
                             sp_calls[k].params.p_betaReal, sp_calls[k].params.p_betaImgn >>)
    /\ (form_pc = "done" /\ form.op \in { "add", "edit" }
            /\ ~ WithinTolerance(Amplitudes(form.data)))
          => (form_response.status_code = 400 /\ sp_calls = << >>)

C14_Witness ==
    /\ form_pc = "done"
    /\ form.op = "edit"
    /\ Amplitudes(form.data) = << Num(99), Num(14), Num(1), Num(1) >>
    /\ Len(sp_calls) = 1
    /\ sp_calls[1].sp = "sp_edit_state"
    /\ form_response.status_code = 200

\* ------------------------------------------------- claims under SpecOrch

\* The symbols for which the engine is to be called with the gate: one of
\* the five, bare or inside one |..| wrapper.
Wrapped(g) == <<"|">> \o g \o <<"|">>

SelectsGate(symbol) == symbol \in FiveGates \cup { Wrapped(g) : g \in FiveGates }

\* The background run of sim_id has got past the engine call.
ReachedGeneration(sim_id) ==
    \/ tasks[sim_id].pc \in { "insert", "update" }
    \/ tasks[sim_id].pc = "returned" /\ tasks[sim_id].shots_data # << >>

\* C4: the orchestrating layer selects the algorithm by one branch: a
\* background run calls generate_shots if and only if the gate's symbol,
\* its |..| wrapper stripped, is a supported gate, and calls
\* generate_shots_random_noise otherwise; a run that has reached generation
\* has called exactly one of the two, once, and a run that has not has
\* called neither.
C4_SelectionRule ==
    \A sim_id \in DOMAIN tasks :
        LET symbol == GateTable[simulations[sim_id].gateID]
        IN  /\ Len(called[sim_id]) <= 1
            /\ ReachedGeneration(sim_id) => Len(called[sim_id]) = 1
            /\ tasks[sim_id].pc \in { "lookup_gate", "lookup_state", "generate" }
                  => called[sim_id] = << >>
            /\ called[sim_id] # << >>
                  => called[sim_id][1] = IF SelectsGate(symbol)
                                         THEN "generate_shots"
                                         ELSE "generate_shots_random_noise"

C4_Witness ==
    \E sim_id \in DOMAIN tasks :
        /\ GateTable[simulations[sim_id].gateID] = <<"|", "X", "|">>
        /\ tasks[sim_id].pc = "returned"
        /\ sim_id \in DOMAIN progress_store
        /\ progress_store[sim_id].status = "complete"
        /\ called[sim_id] = << "generate_shots" >>
        /\ Len(shots_tbl[sim_id]) = MinNumShots

\* A step in which POST /simulations answers 202.
Accepted == response' # response /\ response'.status_code = 202

\* C15: when POST /simulations answers 202 for simID s, the progress entry
\* of s exists with status "processing", current 0 and total numShots, and
\* the background run of s is scheduled in that step and in no other (not
\* with an answer 400, 404, 409, 500 or 503); an entry, once there,
\* disappears only by clear_progress, so a poll after the 202 finds it
\* unless it was cleared.
C15_AcceptedThenScheduled ==
    [][ /\ Accepted =>
              LET s == response'.simID
              IN  /\ s \in DOMAIN progress_store' /\ s \notin DOMAIN progress_store
                  /\ progress_store'[s].status = "processing"
                  /\ progress_store'[s].current = 0
                  /\ Len(tasks') = Len(tasks) + 1 /\ s = Len(tasks')
                  /\ tasks'[s].pc = "lookup_gate"
                  /\ progress_store'[s].total = tasks'[s].data.numShots.num
        /\ Len(tasks') # Len(tasks) => Accepted
        /\ \A s \in DOMAIN progress_store :
              s \notin DOMAIN progress_store' => ClearProgress(s)
      ]_vars

C15_Witness ==
    /\ response = [status_code |-> 202, simID |-> 1]
    /\ 1 \in DOMAIN progress_store
    /\ progress_store[1].status = "processing"
    /\ progress_store[1].current = 0
    /\ progress_store[1].total = MinNumShots
    /\ tasks[1].pc = "lookup_gate"

\* The shots persisted for sim_id: its rows in table Shots.
Persisted(sim_id) == Len(shots_tbl[sim_id])

\* The progress entries of background runs that have not returned and
\* whose status is "processing".
Processing ==
    { s \in DOMAIN progress_store :
        progress_store[s].status = "processing" /\ tasks[s].pc # "returned" }

\* The bounds of C21 for simulation s.
TracksShots(s) ==
    /\ progress_store[s].current <= Persisted(s)
    /\ Persisted(s) <= progress_store[s].current + 1
    /\ tasks[s].pc = "insert" => progress_store[s].current = Persisted(s)

\* C21 as stated: progress is updated after each shot: at every moment of
\* a background run whose progress entry exists with status "processing",
\* current <= (shots persisted for the simID) <= current + 1, and current
\* equals the number persisted after each update (when the loop is about
\* to insert the next shot or to leave).
C21_ProgressTracksShots == \A s \in Processing : TracksShots(s)

\* C21 as amended: the same, for a simulation that has not been deleted
\* (DELETE /simulations/{id} removes its shots while the entry stays).
C21_TracksShotsUnlessDeleted ==
    \A s \in Processing : ~ simulations[s].deleted => TracksShots(s)

C21_Witness ==
    /\ 1 \in Processing
    /\ ~ simulations[1].deleted
    /\ tasks[1].pc = "update"
    /\ progress_store[1].current = MinNumShots - 1
    /\ Persisted(1) = MinNumShots

\* The progress entries with status "complete".
Complete == { s \in DOMAIN progress_store : progress_store[s].status = "complete" }

\* The latest poll was answered with an entry of this status.
PolledStatus(status) ==
    polled.status_code = 200 /\ polled.content.status = status

\* C22 as stated: a simulation is marked complete only when all its shots
\* are stored: in every reachable state a progress entry with status
\* "complete" has current = total and exactly total shots persisted for
\* its simID, and get_progress never returns status "complete" with
\* current # total, however the polls interleave with the background run.
C22_CompleteMeansAllStored ==
    /\ \A s \in Complete :
          /\ progress_store[s].current = progress_store[s].total
          /\ Persisted(s) = progress_store[s].total
    /\ PolledStatus("complete") => polled.content.current = polled.content.total

\* C22 as amended: the shots are all there unless the simulation's rows
\* were deleted.
C22_CompleteUnlessDeleted ==
    /\ \A s \in Complete :
          /\ progress_store[s].current = progress_store[s].total
          /\ ~ simulations[s].deleted => Persisted(s) = progress_store[s].total
    /\ PolledStatus("complete") => polled.content.current = polled.content.total

C22_Witness ==
    /\ 1 \in Complete
    /\ ~ simulations[1].deleted
    /\ progress_store[1].current = MinNumShots
    /\ Persisted(1) = MinNumShots
    /\ PolledStatus("complete")
    /\ polled.content.current = MinNumShots /\ polled.content.pct = 100

\* A step that answers a poll of sim_id.
Polls(sim_id) == polled' # polled /\ polled'.simID = sim_id

\* C23: get_progress(simID) returns None, and the route answers 404,
\* exactly when the progress store holds no entry for simID: before
\* _init_progress for it and after clear_progress of it (an entry appears
\* only with the 202 answer that creates simID and goes only by
\* clear_progress); otherwise the answer is 200 with the entry's current,
\* total, status and message.
C23_NoneIffNoEntry ==
    [][ \A s \in 1..MaxSims :
          /\ Polls(s) =>
                IF s \in DOMAIN progress_store
                THEN /\ polled'.status_code = 200
                     /\ polled'.content.current = progress_store[s].current
                     /\ polled'.content.total = progress_store[s].total
                     /\ polled'.content.status = progress_store[s].status
                     /\ polled'.content.message = progress_store[s].message
                ELSE polled'.status_code = 404 /\ "content" \notin DOMAIN polled'
          /\ (s \notin DOMAIN progress_store /\ s \in DOMAIN progress_store')
                => (Accepted /\ response'.simID = s)
          /\ (s \in DOMAIN progress_store /\ s \notin DOMAIN progress_store')
                => ClearProgress(s)
      ]_vars

C23_Witness ==
    /\ 1 \in DOMAIN tasks
    /\ tasks[1].pc = "update"
    /\ 1 \notin DOMAIN progress_store
    /\ polled = [status_code |-> 404, simID |-> 1]
    /\ Persisted(1) = 2

\* C25: in every reachable state every progress entry has
\* 0 <= current <= total, so the pct that get_progress reports is always
\* between 0 and 100.
C25_CurrentWithinTotal ==
    /\ \A s \in DOMAIN progress_store :
          /\ 0 <= progress_store[s].current
          /\ progress_store[s].current <= progress_store[s].total
    /\ polled.status_code = 200 =>
          /\ 0 <= polled.content.pct /\ polled.content.pct <= 100
          /\ 0 <= polled.content.current
          /\ polled.content.current <= polled.content.total

C25_Witness ==
    /\ 1 \in DOMAIN progress_store
    /\ progress_store[1].status = "error"
    /\ progress_store[1].current = MinNumShots - 1
    /\ progress_store[1].total = MinNumShots
    /\ polled.status_code = 200
    /\ polled.content.current = MinNumShots - 1
    /\ polled.content.pct = ((MinNumShots - 1) * 100) \div MinNumShots

\* The background run of s has returned.
HasReturned(s) == s \in DOMAIN tasks /\ tasks[s].pc = "returned"

\* The entry of s is absent, or has a final status.
IsFinal(s) ==
    s \in DOMAIN progress_store => progress_store[s].status \in { "complete", "error" }

\* C26: every background run ends in a final status: once
\* generate_shots_background(simID) has returned, the progress entry of
\* simID is absent (cleared) or has status "complete" or "error", never
\* "processing"; and, the runs being run on, every simulation accepted with
\* 202 eventually is in such a state, its run returned.
C26_RunsEndFinal ==
    /\ [](\A s \in 1..MaxSims : HasReturned(s) => IsFinal(s))
    /\ \A s \in 1..MaxSims :
          (s \in DOMAIN tasks) ~> (HasReturned(s) /\ IsFinal(s))

C26_Witness ==
    /\ response = [status_code |-> 202, simID |-> 1]
    /\ HasReturned(1)
    /\ 1 \in DOMAIN progress_store
    /\ progress_store[1].status = "error"
    /\ progress_store[1].message = [text |-> "State not found"]
    /\ progress_store[1].current = 0

\* The entries with a final status.
Final ==
    { s \in DOMAIN progress_store : progress_store[s].status \in { "complete", "error" } }

\* C27: the statuses "complete" and "error" are terminal: once the entry
\* of a simID has one of them, no later step changes its status, current
\* or message while the entry is there (clear_progress may remove it);
\* "complete" is never followed by "error", nor "error" by "complete".
C27_FinalIsTerminal ==
    [][ \A s \in Final :
          s \in DOMAIN progress_store' =>
              /\ progress_store'[s].status = progress_store[s].status
              /\ progress_store'[s].current = progress_store[s].current
              /\ progress_store'[s].message = progress_store[s].message
      ]_vars

C27_Witness ==
    /\ 1 \in Final
    /\ HasReturned(1)
    /\ progress_store[1].status = "error"
    /\ progress_store[1].message =
          [text |-> "Error generating shots", error |-> "OperationalError"]
    /\ progress_store[1].current = 2
    /\ PolledStatus("error")
    /\ simulations[1].deleted

\* C28: while the progress entry of a simID exists its current never
\* decreases from one step to the next, and no step increases it by more
\* than 1: it goes 0, 1, 2, ... up to total.
C28_CurrentStepsByOne ==
    [][ \A s \in DOMAIN progress_store :
          s \in DOMAIN progress_store' =>
              /\ progress_store[s].current <= progress_store'[s].current
              /\ progress_store'[s].current <= progress_store[s].current + 1
      ]_vars

C28_Witness ==
    /\ 1 \in Complete
    /\ HasReturned(1)
    /\ progress_store[1].current = MinNumShots
    /\ PolledStatus("processing")
    /\ polled.content.current = MinNumShots - 1

\* ---------------------------------------------- claims under SpecBoundary

\* C24: error translation at the database boundary is uniform: every
\* usecase operation that calls the database for a route (show, add, edit,
\* delete, filter, add_async and reset) returns a response dict with status
\* 500 when the database call raises, and never lets the exception go to
\* the route.
C24_UniformBoundary ==
    /\ op_result.raised \in { "pending", "none" }
    /\ op_raised # "none" =>
          (op_result.raised = "none" /\ op_result.value.status_code = 500)

\* ------------------------------------------------ claims under SpecGuard

\* C16: however concurrent requests to POST /simulations interleave, the
\* number accepted with 202 on one day (which the day's counter counts)
\* never exceeds DAILY_QUERY_LIMIT, and a request whose guard finds the
\* counter at the limit is answered 503 and creates no simulation.
C16_NeverOverLimit ==
    /\ daily_count <= DAILY_QUERY_LIMIT
    /\ Len(simulations) = Cardinality({ r \in DOMAIN posts : posts[r].status_code = 202 })
    /\ \A r \in DOMAIN posts :
          (posts[r].pc # "guard" /\ posts[r].seen >= DAILY_QUERY_LIMIT)
              => (posts[r].pc = "done" /\ posts[r].status_code = 503)

\* The body has stateID and gateID present and numeric, and a numeric
\* numShots between 5 and 100.
Acceptable(data) ==
    /\ IsObject(data)
    /\ IsNumber(data.stateID) /\ IsNumber(data.gateID) /\ IsNumber(data.numShots)
    /\ MinNumShots <= data.numShots.num /\ data.numShots.num <= MaxNumShots

Answered(code) == { r \in DOMAIN posts : posts[r].pc = "done" /\ posts[r].status_code = code }

\* C17: add_async accepts (202) only a body whose stateID and gateID are
\* present and numeric and whose numShots is between 5 and 100; for any
\* other body it answers 400; and a request answered 400 or 404 has no
\* simulation row, no progress entry and no increment of the day's counter:
\* rows, entries and scheduled runs are as many as the 202 answers.
C17_RefusedWith400 ==
    /\ \A r \in DOMAIN posts :
          (posts[r].pc = "done" /\ posts[r].seen < DAILY_QUERY_LIMIT)
              => /\ posts[r].status_code = 202 => Acceptable(posts[r].data)
                 /\ ~ Acceptable(posts[r].data) => posts[r].status_code = 400
    /\ Len(simulations) = Cardinality(Answered(202))
    /\ DOMAIN progress_store = 1..Cardinality(Answered(202))
    /\ Len(tasks) = Cardinality(Answered(202))

=============================================================================
